---- MODULE Spec2Model ----
(***************************************************************************)
(* Model of the stereo visual-odometry frontend, src/src/frontend.cpp.     *)
(*                                                                         *)
(* One Frontend object receives frames through AddFrame.  Images and pixel *)
(* positions are left out; what the image-processing libraries return (how *)
(* many corners the detector finds, which optical-flow matches succeed,    *)
(* which triangulations succeed with z > 0, which edges exceed the         *)
(* chi-square threshold, the pose the optimizer reaches) is an input of    *)
(* each AddFrame step.  A pose is an element of a small non-commutative    *)
(* group standing for SE(3).                                               *)
(*                                                                         *)
(* Pointers: a MapPoint is named by its id (1, 2, ...); a weak_ptr to a    *)
(* MapPoint is that id, 0 when the weak_ptr is empty.  A frame is named by *)
(* its id (1, 2, ...); the null Frame::Ptr is the frame record of id 0.    *)
(***************************************************************************)
EXTENDS Integers, Sequences, FiniteSets

(***************************************************************************)
(* Bounds of the model.  The five thresholds are the configuration values  *)
(* of the frontend (defaults 20, 50, 80, 100, 150) scaled down to frames   *)
(* of at most MaxLeft left features, in the order of the defaults:         *)
(* tracking_bad < tracking < needed_for_keyframe <= init <= num_features.  *)
(***************************************************************************)
num_features_tracking_bad == 0

num_features_tracking == 1

num_features_needed_for_keyframe == 2

num_features_init == 2

num_features == 2

\* the most left features one frame holds in the model
MaxLeft == 2

\* the number of AddFrame calls of a behaviour
MaxFrames == 3

VARIABLES
    status,            \* status_
    current_frame,     \* *current_frame_
    last_frame,        \* *last_frame_
    tracking_inliers,  \* tracking_inliers_
    relative_motion,   \* relative_motion_
    cfg,               \* the five num_features..._ members, set from the configuration
    viewer,            \* viewer_ != nullptr
    backend,           \* backend_ != nullptr
    has_map,           \* map_ != nullptr
    map,               \* *map_ with the MapPoints it holds and the id factories
    calls,             \* calls made to frame, map, backend and viewer in the last AddFrame
    ret,               \* what the last AddFrame returned
    crashed,           \* a null pointer was dereferenced
    step,              \* what the last AddFrame ran and what the libraries returned to it
    rig,               \* the scene: "moving", or "at rest" (every frame the same image)
    estimate,          \* one call of EstimateCurrentPose on its own: arguments and result
    shared,            \* one MapPoint, its mutex, and where the two threads stand on it
    watch,             \* what step keeps of a track step: "steps", or "matches" as well
    culling,           \* one loop over weak_ptr links while another thread culls MapPoints
    next_frame_id      \* id the next incoming frame carries

vars == <<status, current_frame, last_frame, tracking_inliers, relative_motion,
          cfg, viewer, backend, has_map, map, calls, ret, crashed, step, rig,
          estimate, shared, watch, culling, next_frame_id>>

\* the configuration of the model: the bounds above
DefaultConfig ==
    [num_features |-> num_features,
     num_features_init |-> num_features_init,
     num_features_tracking |-> num_features_tracking,
     num_features_tracking_bad |-> num_features_tracking_bad,
     num_features_needed_for_keyframe |-> num_features_needed_for_keyframe]

\* poses: the permutations of 1..3 under composition, a group in which
\* a * b # b * a in general, as in SE(3)
Poses == {p \in [1..3 -> 1..3] : \A i, j \in 1..3 : i # j => p[i] # p[j]}

Identity == [i \in 1..3 |-> i]

\* SE3 operator*
Compose(a, b) == [i \in 1..3 |-> a[b[i]]]

\* SE3::inverse
Inverse(a) == [i \in 1..3 |-> CHOOSE j \in 1..3 : a[j] = i]

Min(a, b) == IF a < b THEN a ELSE b

\* a left or right Feature; map_point is the weak_ptr
Feature(mp) == [null |-> FALSE, map_point |-> mp, is_outlier |-> FALSE]

\* the nullptr entry of features_right_
NullFeature == [null |-> TRUE, map_point |-> 0, is_outlier |-> FALSE]

\* a frame as the caller passes it: no features, not a keyframe
NewFrame(id) ==
    [id |-> id, is_keyframe |-> FALSE, keyframe_id |-> 0, pose |-> Identity,
     features_left |-> <<>>, features_right |-> <<>>]

NullFrame == NewFrame(0)

\* the map, the MapPoints (points[id] is the observation list of MapPoint id)
\* and the keyframe id factory
EmptyMap ==
    [keyframes |-> {}, landmarks |-> {}, points |-> <<>>, next_keyframe_id |-> 0]

\* a std::vector<uchar> status of length n: every sequence of n flags
StatusVectors(n) == [1..n -> BOOLEAN]

CountTrue(st) == Cardinality({i \in DOMAIN st : st[i]})

\* w: the objects one AddFrame call works on
World(f, m, c) == [f |-> f, m |-> m, calls |-> c]

Call(w, name) == [w EXCEPT !.calls = Append(@, name)]

\* MapPoint::AddObservation: the feature is appended to the observation list
AddObservation(m, mp, feat) ==
    [m EXCEPT !.points[mp] = Append(@, feat)]

\* MapPoint::CreateNewMappoint: a new MapPoint with the next id, no observations
CreateNewMappoint(m) == [m EXCEPT !.points = Append(@, <<>>)]

\* Map::InsertMapPoint
InsertMapPoint(w, mp) ==
    Call([w EXCEPT !.m.landmarks = @ \cup {mp}], "Map.InsertMapPoint")

\* Frame::SetKeyFrame: is_keyframe_ = true, keyframe_id_ = keyframe_factory_id++
SetKeyFrame(w) ==
    Call([w EXCEPT !.f.is_keyframe = TRUE,
                   !.f.keyframe_id = w.m.next_keyframe_id,
                   !.m.next_keyframe_id = @ + 1], "Frame.SetKeyFrame")

\* Map::InsertKeyFrame: keyframes_ is keyed by keyframe_id_ (insert or replace)
InsertKeyFrame(w) ==
    Call([w EXCEPT !.m.keyframes =
              {k \in @ : k.keyframe_id # w.f.keyframe_id}
                  \cup {[keyframe_id |-> w.f.keyframe_id, frame |-> w.f.id]}],
         "Map.InsertKeyFrame")

\* a reference to the left or right feature of index i of frame w.f
LeftRef(w, i) == <<w.f.id, "L", i>>

RightRef(w, i) == <<w.f.id, "R", i>>

\* appends n features without MapPoint to features_left_ (the keypoints the
\* detector returned under the mask)
DetectFeatures(w, n) ==
    [w EXCEPT !.f.features_left = @ \o [i \in 1..n |-> Feature(0)]]

\* FindFeaturesInRight that pushes a right feature whatever the LK status is
FindFeaturesInRightAllFound(w, st) ==
    [w EXCEPT !.f.features_right = @ \o [i \in 1..Len(st) |-> Feature(0)]]

\* one entry of features_right_ per entry of the LK status vector st: a new
\* right feature where the match succeeded, nullptr where it failed
FindFeaturesInRight(w, st) ==
    [w EXCEPT !.f.features_right =
        @ \o [i \in 1..Len(st) |-> IF st[i] THEN Feature(0) ELSE NullFeature]]

\* the body of the if of both triangulation loops: create the MapPoint, add
\* the two observations, link both features, insert it into the map
NewLandmark(w, i) ==
    LET mp == Len(w.m.points) + 1
        m1 == CreateNewMappoint(w.m)
        m2 == AddObservation(m1, mp, LeftRef(w, i))
        m3 == AddObservation(m2, mp, RightRef(w, i))
        w1 == [w EXCEPT !.m = m3,
                        !.f.features_left[i].map_point = mp,
                        !.f.features_right[i].map_point = mp]
    IN  InsertMapPoint(w1, mp)

\* indices for which BuildInitMap calls triangulation()
InitCandidates(f) ==
    {i \in 1..Len(f.features_left) : ~f.features_right[i].null}

RECURSIVE BuildInitMapLoop(_, _, _)
BuildInitMapLoop(w, i, tri) ==
    IF i > Len(w.f.features_left) THEN w
    ELSE IF w.f.features_right[i].null THEN BuildInitMapLoop(w, i + 1, tri)
    ELSE IF i \in tri THEN BuildInitMapLoop(NewLandmark(w, i), i + 1, tri)
    ELSE BuildInitMapLoop(w, i + 1, tri)

\* BuildInitMap without the call of map_->InsertKeyFrame
BuildInitMapNoInsert(w, tri) ==
    LET w1 == BuildInitMapLoop(w, 1, tri)
        w2 == SetKeyFrame(w1)
    IN  Call(w2, "Backend.UpdateMap")

\* tri: the indices for which triangulation() succeeds with pworld[2] > 0
BuildInitMap(w, tri) ==
    LET w1 == BuildInitMapLoop(w, 1, tri)
        w2 == SetKeyFrame(w1)
        w3 == InsertKeyFrame(w2)
    IN  Call(w3, "Backend.UpdateMap")

\* indices for which TriangulateNewPoints calls triangulation()
NewPointCandidates(f) ==
    {i \in 1..Len(f.features_left) :
        f.features_left[i].map_point = 0 /\ ~f.features_right[i].null}

\* the loop of TriangulateNewPoints without the test of triangulation()'s result
RECURSIVE TriangulateNewPointsLoopUnchecked(_, _, _)
TriangulateNewPointsLoopUnchecked(w, i, tri) ==
    IF i > Len(w.f.features_left) THEN w
    ELSE IF w.f.features_left[i].map_point = 0
            /\ ~w.f.features_right[i].null
         THEN TriangulateNewPointsLoopUnchecked(NewLandmark(w, i), i + 1, tri)
         ELSE TriangulateNewPointsLoopUnchecked(w, i + 1, tri)

RECURSIVE TriangulateNewPointsLoop(_, _, _)
TriangulateNewPointsLoop(w, i, tri) ==
    IF i > Len(w.f.features_left) THEN w
    ELSE IF w.f.features_left[i].map_point = 0
            /\ ~w.f.features_right[i].null
            /\ i \in tri
         THEN TriangulateNewPointsLoop(NewLandmark(w, i), i + 1, tri)
         ELSE TriangulateNewPointsLoop(w, i + 1, tri)

TriangulateNewPoints(w, tri) == TriangulateNewPointsLoop(w, 1, tri)

RECURSIVE SetObservationsLoop(_, _)
SetObservationsLoop(w, i) ==
    IF i > Len(w.f.features_left) THEN w
    ELSE LET mp == w.f.features_left[i].map_point
         IN  IF mp # 0
             THEN SetObservationsLoop(
                      [w EXCEPT !.m = AddObservation(@, mp, LeftRef(w, i))], i + 1)
             ELSE SetObservationsLoop(w, i + 1)

SetObservationsForKeyFrame(w) == SetObservationsLoop(w, 1)

\* NeedKeyframe for an early return on tracking_inliers_ > the threshold
NeedKeyframeInclusive(inliers) ==
    ~(inliers > cfg.num_features_needed_for_keyframe)

\* the test InsertKeyframe returns early on, negated: a keyframe is inserted
NeedKeyframe(inliers) == ~(inliers >= cfg.num_features_needed_for_keyframe)

\* InsertKeyframe with SetObservationsForKeyFrame moved after the triangulation
InsertKeyframeObserveLast(w, inliers, n, st, tri) ==
    IF ~NeedKeyframe(inliers) THEN w
    ELSE LET w1 == SetKeyFrame(w)
             w2 == InsertKeyFrame(w1)
             w4 == DetectFeatures(w2, n)
             w5 == FindFeaturesInRight(w4, st)
             w6 == TriangulateNewPoints(w5, tri)
             w3 == SetObservationsForKeyFrame(w6)
             w7 == Call(w3, "Backend.UpdateMap")
         IN  IF viewer THEN Call(w7, "Viewer.UpdateMap") ELSE w7

\* InsertKeyframe that notifies the backend before it triangulates
InsertKeyframeNotifyFirst(w, inliers, n, st, tri) ==
    IF ~NeedKeyframe(inliers) THEN w
    ELSE LET w1 == SetKeyFrame(w)
             w2 == InsertKeyFrame(w1)
             w3 == SetObservationsForKeyFrame(w2)
             w4 == DetectFeatures(w3, n)
             w5 == FindFeaturesInRight(w4, st)
             w6 == Call(w5, "Backend.UpdateMap")
             w7 == TriangulateNewPoints(w6, tri)
         IN  IF viewer THEN Call(w7, "Viewer.UpdateMap") ELSE w7

\* n, st, tri: what the detector, the stereo LK and triangulation() return
InsertKeyframe(w, inliers, n, st, tri) ==
    IF ~NeedKeyframe(inliers) THEN w
    ELSE LET w1 == SetKeyFrame(w)
             w2 == InsertKeyFrame(w1)
             w3 == SetObservationsForKeyFrame(w2)
             w4 == DetectFeatures(w3, n)
             w5 == FindFeaturesInRight(w4, st)
             w6 == TriangulateNewPoints(w5, tri)
             w7 == Call(w6, "Backend.UpdateMap")
         IN  IF viewer THEN Call(w7, "Viewer.UpdateMap") ELSE w7

\* TrackLastFrameLoop that keeps a feature for a failed match as well
RECURSIVE TrackLastFrameLoopAll(_, _, _, _)
TrackLastFrameLoopAll(last, w, i, lk) ==
    IF i > Len(lk) THEN w
    ELSE TrackLastFrameLoopAll(last,
             [w EXCEPT !.f.features_left =
                  Append(@, Feature(last.features_left[i].map_point))],
             i + 1, lk)

\* lk: the status vector of the temporal LK, one flag per left feature of the
\* last frame; a success appends a left feature carrying the same weak_ptr
RECURSIVE TrackLastFrameLoop(_, _, _, _)
TrackLastFrameLoop(last, w, i, lk) ==
    IF i > Len(lk) THEN w
    ELSE IF lk[i]
         THEN TrackLastFrameLoop(last,
                  [w EXCEPT !.f.features_left =
                       Append(@, Feature(last.features_left[i].map_point))],
                  i + 1, lk)
         ELSE TrackLastFrameLoop(last, w, i + 1, lk)

TrackLastFrame(last, w, lk) == TrackLastFrameLoop(last, w, 1, lk)

\* the left features an edge is built for, in order (the vector `features`)
EdgeFeatures(f) ==
    LET RECURSIVE Collect(_)
        Collect(i) ==
            IF i > Len(f.features_left) THEN <<>>
            ELSE IF f.features_left[i].map_point # 0
                 THEN <<i>> \o Collect(i + 1)
                 ELSE Collect(i + 1)
    IN  Collect(1)

\* ClassifyEdges that never un-marks a feature once it was marked
ClassifyEdgesSticky(f, edges, over) ==
    [f EXCEPT !.features_left =
        [i \in DOMAIN @ |->
            IF \E e \in DOMAIN edges : edges[e] = i
            THEN [@[i] EXCEPT !.is_outlier =
                     @ \/ \E e \in over : edges[e] = i]
            ELSE @[i]]]

\* one outer iteration: over holds the edges whose chi2 exceeds chi2_th
\* (for an edge marked before, the chi2 after computeError())
ClassifyEdges(f, edges, over) ==
    [f EXCEPT !.features_left =
        [i \in DOMAIN @ |->
            IF \E e \in DOMAIN edges : edges[e] = i
            THEN [@[i] EXCEPT !.is_outlier =
                     \E e \in over : edges[e] = i]
            ELSE @[i]]]

\* the left features marked is_outlier
Marked(f) == {i \in DOMAIN f.features_left : f.features_left[i].is_outlier}

\* what one outer iteration did: the estimate the vertex was set to before
\* the optimizer ran, and the features marked when the iteration ended
Iteration(start, f) == [start |-> start, marked |-> Marked(f)]

\* OuterIterations with cnt_outlier set to 0 once, before the loop
RECURSIVE OuterIterationsAccumulate(_, _, _, _, _, _, _)
OuterIterationsAccumulate(f, edges, chi, opt, iteration, cnt_outlier, trace) ==
    IF iteration >= 4
    THEN [f |-> f, cnt_outlier |-> cnt_outlier, trace |-> trace,
          vertex_pose |-> IF iteration = 0 THEN f.pose ELSE opt[iteration]]
    ELSE OuterIterationsAccumulate(
             ClassifyEdges(f, edges, chi[iteration + 1]),
             edges, chi, opt, iteration + 1,
             cnt_outlier + Cardinality(chi[iteration + 1]),
             IF estimate.stage = "called"
             THEN Append(trace,
                      Iteration(f.pose, ClassifyEdges(f, edges, chi[iteration + 1])))
             ELSE trace)

\* the loop over the 4 outer iterations: each sets the vertex to the pose of
\* the frame, optimizes (the vertex becomes opt[iteration + 1]), sets
\* cnt_outlier to 0 and counts the edges over the threshold; trace keeps
\* what each iteration did, for a call that is looked at on its own
RECURSIVE OuterIterations(_, _, _, _, _, _, _)
OuterIterations(f, edges, chi, opt, iteration, cnt_outlier, trace) ==
    IF iteration >= 4
    THEN [f |-> f, cnt_outlier |-> cnt_outlier, trace |-> trace,
          vertex_pose |-> IF iteration = 0 THEN f.pose ELSE opt[iteration]]
    ELSE OuterIterations(
             ClassifyEdges(f, edges, chi[iteration + 1]),
             edges, chi, opt, iteration + 1,
             0 + Cardinality(chi[iteration + 1]),
             IF estimate.stage = "called"
             THEN Append(trace,
                      Iteration(f.pose, ClassifyEdges(f, edges, chi[iteration + 1])))
             ELSE trace)

\* EstimateCurrentPose that leaves the flags of the last iteration in place
EstimateCurrentPoseKeepFlags(w, chi, opt) ==
    LET edges == EdgeFeatures(w.f)
        r     == OuterIterations(w.f, edges, chi, opt, 0, 0, <<>>)
        f1    == [r.f EXCEPT !.pose = r.vertex_pose,
                             !.features_left =
                     [i \in DOMAIN @ |->
                         IF (\E e \in DOMAIN edges : edges[e] = i) /\ @[i].is_outlier
                         THEN [@[i] EXCEPT !.map_point = 0]
                         ELSE @[i]]]
    IN  [w |-> [w EXCEPT !.f = f1], inliers |-> Len(edges) - r.cnt_outlier]

\* chi: for each of the 4 outer iterations the set of edges over the threshold
\* opt: for each of them the pose the optimizer leaves in the vertex
\* after the loop: SetPose; for each feature of an edge still flagged, reset
\* the link and clear the flag; return features.size() - cnt_outlier
EstimateCurrentPose(w, chi, opt) ==
    LET edges == EdgeFeatures(w.f)
        r     == OuterIterations(w.f, edges, chi, opt, 0, 0, <<>>)
        f1    == [r.f EXCEPT !.pose = r.vertex_pose,
                             !.features_left =
                     [i \in DOMAIN @ |->
                         IF (\E e \in DOMAIN edges : edges[e] = i) /\ @[i].is_outlier
                         THEN [@[i] EXCEPT !.map_point = 0, !.is_outlier = FALSE]
                         ELSE @[i]]]
    IN  [w |-> [w EXCEPT !.f = f1], inliers |-> Len(edges) - r.cnt_outlier]

\* Classify with the lower comparison made inclusive
ClassifyBadInclusive(inliers) ==
    IF inliers > cfg.num_features_tracking THEN "TRACKING_GOOD"
    ELSE IF inliers >= cfg.num_features_tracking_bad THEN "TRACKING_BAD"
    ELSE "LOST"

\* the if / else if / else of Track
Classify(inliers) ==
    IF inliers > cfg.num_features_tracking THEN "TRACKING_GOOD"
    ELSE IF inliers > cfg.num_features_tracking_bad THEN "TRACKING_BAD"
    ELSE "LOST"

\* EnoughMatches for an early return on num_coor_features <= num_features_init_
EnoughMatchesStrict(num_coor_features) ==
    ~(num_coor_features <= cfg.num_features_init)

\* the test StereoInit returns early on, negated: the initial map is built
EnoughMatches(num_coor_features) == ~(num_coor_features < cfg.num_features_init)

\* what a case of AddFrame leaves: the world, status_, tracking_inliers_,
\* relative_motion_ and the value the case returns to AddFrame
Outcome(w, st, inliers, motion, returned) ==
    [w |-> w, status |-> st, inliers |-> inliers, relative_motion |-> motion,
     ret |-> returned]

\* StereoInit that builds the initial map before it tests the match count
StereoInitBuildFirst(w, n, st, tri) ==
    LET w1 == DetectFeatures(w, n)
        w2 == FindFeaturesInRight(w1, st)
        num_coor_features == CountTrue(st)
        w3 == BuildInitMap(w2, tri)
    IN  IF ~EnoughMatches(num_coor_features)
        THEN Outcome(w3, status, tracking_inliers, relative_motion, FALSE)
        ELSE LET w4 == IF viewer
                       THEN Call(Call(w3, "Viewer.AddCurrentFrame"), "Viewer.UpdateMap")
                       ELSE w3
             IN  Outcome(w4, "TRACKING_GOOD", tracking_inliers, relative_motion, TRUE)

\* n, st, tri: what the detector, the stereo LK and triangulation() return
StereoInit(w, n, st, tri) ==
    LET w1 == DetectFeatures(w, n)
        w2 == FindFeaturesInRight(w1, st)
        num_coor_features == CountTrue(st)
    IN  IF ~EnoughMatches(num_coor_features)
        THEN Outcome(w2, status, tracking_inliers, relative_motion, FALSE)
        ELSE LET w3 == BuildInitMap(w2, tri)
                 w4 == IF viewer
                       THEN Call(Call(w3, "Viewer.AddCurrentFrame"), "Viewer.UpdateMap")
                       ELSE w3
             IN  Outcome(w4, "TRACKING_GOOD", tracking_inliers, relative_motion, TRUE)

\* the start of Track: with a last frame, the pose of the current frame is
\* set to relative_motion_ * last_frame_->Pose()
TrackPrior(w) ==
    IF last_frame.id # 0
    THEN [w EXCEPT !.f.pose = Compose(relative_motion, last_frame.pose)]
    ELSE w

\* Track that inserts no keyframe for a frame it classifies as LOST
TrackSkipLost(est, n, st, tri) ==
    LET w2  == IF Classify(est.inliers) = "LOST" THEN est.w
               ELSE InsertKeyframe(est.w, est.inliers, n, st, tri)
        w3  == IF viewer THEN Call(w2, "Viewer.AddCurrentFrame") ELSE w2
    IN  Outcome(w3, Classify(est.inliers), est.inliers,
                Compose(est.w.f.pose, Inverse(last_frame.pose)), TRUE)

\* Track with relative_motion_ = current_frame_->Pose() * last_frame_->Pose()
TrackNoInverse(est, n, st, tri) ==
    LET w2  == InsertKeyframe(est.w, est.inliers, n, st, tri)
        w3  == IF viewer THEN Call(w2, "Viewer.AddCurrentFrame") ELSE w2
    IN  Outcome(w3, Classify(est.inliers), est.inliers,
                Compose(est.w.f.pose, last_frame.pose), TRUE)

\* Track from the return of EstimateCurrentPose on: est is what it returned
\* for the frame TrackLastFrame filled; the pose relative_motion_ is computed
\* from is the one EstimateCurrentPose set, InsertKeyframe sets none
Track(est, n, st, tri) ==
    LET w2  == InsertKeyframe(est.w, est.inliers, n, st, tri)
        w3  == IF viewer THEN Call(w2, "Viewer.AddCurrentFrame") ELSE w2
    IN  Outcome(w3, Classify(est.inliers), est.inliers,
                Compose(est.w.f.pose, Inverse(last_frame.pose)), TRUE)

\* Reset as a soft reset that returns to INITING
ResetToIniting(w) == Outcome(w, "INITING", tracking_inliers, relative_motion, TRUE)

\* Reset only logs that it is not implemented
Reset(w) == Outcome(w, status, tracking_inliers, relative_motion, TRUE)

Links(f) == [i \in DOMAIN f.features_left |-> f.features_left[i].map_point]

\* what the last AddFrame ran: the case of the switch, the status and the map
\* it started with, and what the libraries returned to the stereo matching and
\* to the triangulation loop (none of it is read by the frontend)
\*   detected: the number of keypoints DetectFeatures got, 0 if it did not run
\*   stereo_ran, stereo_status: FindFeaturesInRight ran, with this LK status
\*   tri_ran, tri_called, tri_ok: a triangulation loop ran, called
\*       triangulation() for these indices, and it succeeded with z > 0 for these
\*   links_before: the weak_ptr of each left feature when that loop started
\*   last_id: the id of *last_frame_ when AddFrame was entered
\* and, when the matches are watched,
\*   last_links, last_keyframe: *last_frame_ when AddFrame was entered
\*   inliers_before: tracking_inliers_ when AddFrame was entered
\*   lk_status, tracked: the status vector the temporal LK returned and the
\*       weak_ptr of each left feature when TrackLastFrame returned
StepRecord(op, n, sran, st, tran, cand, tri, links) ==
    [op |-> op, status_before |-> status, map_before |-> map,
     detected |-> n, stereo_ran |-> sran, stereo_status |-> st,
     tri_ran |-> tran, tri_called |-> cand, tri_ok |-> tri,
     links_before |-> links,
     last_id |-> last_frame.id,
     last_links |-> IF watch = "matches" THEN Links(last_frame) ELSE <<>>,
     last_keyframe |-> watch = "matches" /\ last_frame.is_keyframe,
     inliers_before |-> IF watch = "matches" THEN tracking_inliers ELSE 0,
     lk_status |-> <<>>, tracked |-> <<>>]

NoStep ==
    [op |-> "none", status_before |-> "INITING", map_before |-> EmptyMap,
     detected |-> 0, stereo_ran |-> FALSE, stereo_status |-> <<>>,
     tri_ran |-> FALSE, tri_called |-> {}, tri_ok |-> {},
     links_before |-> <<>>,
     last_id |-> 0, last_links |-> <<>>, last_keyframe |-> FALSE,
     inliers_before |-> 0, lk_status |-> <<>>, tracked |-> <<>>]

\* no call of EstimateCurrentPose is looked at on its own
NoEstimate ==
    [stage |-> "none", frame |-> NullFrame, chi |-> <<>>, opt |-> <<>>,
     returned |-> NullFrame, inliers |-> 0, trace |-> <<>>]

\* a MapPoint no thread is working on: pos_ as two words, the mutex that
\* guards it, the position the backend is about to store, the place the
\* frontend reads pos_ from and what it has read
NoShared ==
    [pos |-> <<0, 0>>, mutex |-> "free",
     backend_pc |-> "idle", target |-> <<0, 0>>,
     frontend_pc |-> "idle", site |-> "none", seen |-> <<0, 0>>]

\* no loop over weak_ptr links is looked at on its own
\*   site: the function the loop is in;  links: the map_point_ of each
\*   feature it goes over;  i: the feature it is at;  pc: where in the body
\*   in_map: the MapPoints the map owns;  held: the MapPoint a local
\*   shared_ptr of the loop body owns (0: none);  null_deref: a null
\*   shared_ptr was dereferenced
NoCulling ==
    [site |-> "none", links |-> <<>>, i |-> 1, pc |-> "next",
     in_map |-> {}, held |-> 0, null_deref |-> FALSE]

\* the state the constructor leaves, but for the wiring, the configuration
\* and the scene
Constructed ==
    /\ status = "INITING"
    /\ current_frame = NullFrame
    /\ last_frame = NullFrame
    /\ tracking_inliers = 0
    /\ relative_motion = Identity
    /\ map = EmptyMap
    /\ calls = <<>>
    /\ ret = TRUE
    /\ crashed = FALSE
    /\ step = NoStep
    /\ next_frame_id = 1

Init ==
    /\ Constructed
    /\ cfg = DefaultConfig
    /\ viewer \in BOOLEAN
    /\ backend = TRUE
    /\ has_map = TRUE
    /\ rig = "moving"
    /\ estimate = NoEstimate
    /\ shared = NoShared
    /\ watch = "steps"
    /\ culling = NoCulling

\* a call made through map_ or backend_ while that pointer is null
DerefsNull(c) ==
    \E i \in DOMAIN c :
        \/ c[i] \in {"Map.InsertKeyFrame", "Map.InsertMapPoint"} /\ ~has_map
        \/ c[i] = "Backend.UpdateMap" /\ ~backend

\* AddFrame that returns what the case of the switch returned
FinishPropagate(r, sr) ==
    /\ status' = r.status
    /\ current_frame' = r.w.f
    /\ last_frame' = r.w.f
    /\ tracking_inliers' = r.inliers
    /\ relative_motion' = r.relative_motion
    /\ map' = r.w.m
    /\ calls' = r.w.calls
    /\ ret' = r.ret
    /\ step' = sr
    /\ next_frame_id' = next_frame_id + 1
    /\ UNCHANGED <<cfg, viewer, backend, has_map, crashed, rig, estimate,
                   shared, watch, culling>>

\* AddFrame without last_frame_ = current_frame_
FinishKeepLast(r, sr) ==
    /\ status' = r.status
    /\ current_frame' = r.w.f
    /\ tracking_inliers' = r.inliers
    /\ relative_motion' = r.relative_motion
    /\ map' = r.w.m
    /\ calls' = r.w.calls
    /\ ret' = TRUE
    /\ step' = sr
    /\ next_frame_id' = next_frame_id + 1
    /\ UNCHANGED <<last_frame, cfg, viewer, backend, has_map, crashed, rig, estimate,
                   shared, watch, culling>>

\* the end of AddFrame: last_frame_ = current_frame_; return true.  A case
\* that went through a null map_ or backend_ does not come back
Finish(r, sr) ==
    IF DerefsNull(r.w.calls)
    THEN /\ crashed' = TRUE
         /\ UNCHANGED <<status, current_frame, last_frame, tracking_inliers,
                        relative_motion, cfg, viewer, backend, has_map, map,
                        calls, ret, step, rig, estimate,
                        shared, watch, culling, next_frame_id>>
    ELSE /\ status' = r.status
         /\ current_frame' = r.w.f
         /\ last_frame' = r.w.f
         /\ tracking_inliers' = r.inliers
         /\ relative_motion' = r.relative_motion
         /\ map' = r.w.m
         /\ calls' = r.w.calls
         /\ ret' = TRUE
         /\ step' = sr
         /\ next_frame_id' = next_frame_id + 1
         /\ UNCHANGED <<cfg, viewer, backend, has_map, crashed, rig, estimate,
                   shared, watch, culling>>

\* the pose an incoming frame carries: Frame's default, or, for the scene at
\* rest, wherever the rig stands
IncomingPoses == IF rig = "at rest" THEN Poses ELSE {Identity}

\* AddFrame, case INITING
AddFrameIniting ==
    /\ ~crashed
    /\ next_frame_id <= MaxFrames
    /\ status = "INITING"
    /\ \E pose \in IncomingPoses :
       \E n \in 0..Min(cfg.num_features, MaxLeft) :
       \E st \in StatusVectors(n) :
          LET w0   == World([NewFrame(next_frame_id) EXCEPT !.pose = pose], map, <<>>)
              w2   == FindFeaturesInRight(DetectFeatures(w0, n), st)
              cand == IF EnoughMatches(CountTrue(st))
                      THEN InitCandidates(w2.f) ELSE {}
          IN  \E tri \in SUBSET cand : \E r \in {StereoInit(w0, n, st, tri)} :
                 Finish(r, StepRecord("StereoInit", n, TRUE, st,
                                      EnoughMatches(CountTrue(st)),
                                      cand, tri, Links(w2.f)))

\* the chi-square outcomes of the 4 outer iterations over the edges 1..ne: the
\* first three all below or all above the threshold, the fourth any subset;
\* for the scene at rest every edge is below the threshold every time
ChiOutcomes(ne) ==
    IF rig = "at rest" THEN {<<{}, {}, {}, {}>>}
    ELSE {<<early, early, early, over>> :
             early \in {{}, 1..ne}, over \in SUBSET (1..ne)}

\* the status vectors of the temporal LK: for the scene at rest every match
\* succeeds
LKOutcomes(n) ==
    IF rig = "at rest" THEN {[i \in 1..n |-> TRUE]} ELSE StatusVectors(n)

\* the poses the optimizer reaches in the 4 outer iterations: the pose of
\* the last frame when the scene is at rest, else the prior it started from
OptOutcomes(prior) ==
    IF rig = "at rest" THEN {[i \in 1..4 |-> last_frame.pose]}
    ELSE {[i \in 1..4 |-> prior]}

\* AddFrame, cases TRACKING_GOOD and TRACKING_BAD
AddFrameTracking ==
    /\ ~crashed
    /\ next_frame_id <= MaxFrames
    /\ status \in {"TRACKING_GOOD", "TRACKING_BAD"}
    /\ LET w0 == TrackPrior(World(NewFrame(next_frame_id), map, <<>>))
       IN
       \E tlf \in {[w |-> TrackLastFrame(last_frame, w0, lk),
                      lk_status |-> IF watch = "matches" THEN lk ELSE <<>>] :
                        lk \in LKOutcomes(Len(last_frame.features_left))} :
       \E w1 \in {tlf.w} :
       \E est \in {EstimateCurrentPose(w1, chi, opt) :
                      chi \in ChiOutcomes(Len(EdgeFeatures(w1.f))),
                      opt \in OptOutcomes(w1.f.pose)} :
       \E kf \in {NeedKeyframe(est.inliers)} :
       \E n \in 0..(IF kf THEN Min(cfg.num_features, MaxLeft - Len(est.w.f.features_left))
                          ELSE 0) :
       \E st \in StatusVectors(IF kf THEN Len(est.w.f.features_left) + n ELSE 0) :
       \E w5 \in {FindFeaturesInRight(DetectFeatures(est.w, n), st)} :
       \E cand \in {IF kf THEN NewPointCandidates(w5.f) ELSE {}} :
       \E tri \in SUBSET cand :
       \E r \in {Track(est, n, st, tri)} :
          Finish(r, [StepRecord("Track", n, kf, st, kf, cand, tri,
                                IF kf THEN Links(w5.f) ELSE <<>>)
                        EXCEPT !.lk_status = tlf.lk_status,
                               !.tracked = IF watch = "matches"
                                           THEN Links(w1.f) ELSE <<>>])

\* AddFrame, case LOST
AddFrameLost ==
    /\ ~crashed
    /\ next_frame_id <= MaxFrames
    /\ status = "LOST"
    /\ LET w0 == World(NewFrame(next_frame_id), map, <<>>)
       IN  \E r \in {Reset(w0)} :
           Finish(r, StepRecord("Reset", 0, FALSE, <<>>, FALSE, {}, {}, <<>>))

Next == AddFrameIniting \/ AddFrameTracking \/ AddFrameLost

Spec == Init /\ [][Next]_vars

(***************************************************************************)
(* The frontend as its constructor leaves it, whether or not a map and a   *)
(* backend have been attached before the first frame arrives               *)
(***************************************************************************)
InitWiring ==
    /\ Constructed
    /\ cfg = DefaultConfig
    /\ viewer \in BOOLEAN
    /\ backend \in BOOLEAN
    /\ has_map \in BOOLEAN
    /\ rig = "moving"
    /\ estimate = NoEstimate
    /\ shared = NoShared
    /\ watch = "steps"
    /\ culling = NoCulling

SpecWiring == InitWiring /\ [][Next]_vars

(***************************************************************************)
(* The frontend under each configuration that keeps the keyframe threshold *)
(* above num_features_tracking_bad                                         *)
(***************************************************************************)
Configs ==
    {[DefaultConfig EXCEPT !.num_features_needed_for_keyframe = k] :
        k \in (num_features_tracking_bad + 1)..num_features_needed_for_keyframe}

InitConfig ==
    /\ Constructed
    /\ cfg \in Configs
    /\ viewer = TRUE
    /\ backend = TRUE
    /\ has_map = TRUE
    /\ rig = "moving"
    /\ estimate = NoEstimate
    /\ shared = NoShared
    /\ watch = "steps"
    /\ culling = NoCulling

SpecConfig == InitConfig /\ [][Next]_vars

(***************************************************************************)
(* The frontend in front of a scene at rest: the rig stands at any pose,   *)
(* every temporal LK match succeeds, no edge is over the chi-square        *)
(* threshold and the optimizer finds the pose of the last frame            *)
(***************************************************************************)
InitStationary ==
    /\ Constructed
    /\ cfg = DefaultConfig
    /\ viewer \in BOOLEAN
    /\ backend = TRUE
    /\ has_map = TRUE
    /\ rig = "at rest"
    /\ estimate = NoEstimate
    /\ shared = NoShared
    /\ watch = "steps"
    /\ culling = NoCulling

SpecStationary == InitStationary /\ [][Next]_vars

(***************************************************************************)
(* The backend thread refining the position of a MapPoint while the        *)
(* frontend reads it                                                       *)
(***************************************************************************)
Coordinates == 0..1

\* the three places where the frontend reads mp->pos_
ReadSites == {"EstimateCurrentPose", "TrackLastFrame", "FindFeaturesInRight"}

InitRace ==
    /\ Constructed
    /\ cfg = DefaultConfig
    /\ viewer = FALSE
    /\ backend = TRUE
    /\ has_map = TRUE
    /\ rig = "moving"
    /\ estimate = NoEstimate
    /\ shared = NoShared
    /\ watch = "steps"
    /\ culling = NoCulling

OnlyShared ==
    UNCHANGED <<status, current_frame, last_frame, tracking_inliers,
                relative_motion, cfg, viewer, backend, has_map, map, calls,
                ret, crashed, step, rig, estimate, watch, culling,
                next_frame_id>>

\* the backend takes the mutex of the MapPoint to store a refined position
BackendLock ==
    /\ shared.backend_pc = "idle"
    /\ shared.mutex = "free"
    /\ \E x, y \in Coordinates :
          shared' = [shared EXCEPT !.mutex = "backend", !.backend_pc = "locked",
                                   !.target = <<x, y>>]
    /\ OnlyShared

\* it stores the first word
BackendWriteFirst ==
    /\ shared.backend_pc = "locked"
    /\ shared' = [shared EXCEPT !.pos[1] = shared.target[1],
                                !.backend_pc = "half written"]
    /\ OnlyShared

\* it stores the second word
BackendWriteSecond ==
    /\ shared.backend_pc = "half written"
    /\ shared' = [shared EXCEPT !.pos[2] = shared.target[2],
                                !.backend_pc = "written"]
    /\ OnlyShared

BackendUnlock ==
    /\ shared.backend_pc = "written"
    /\ shared' = [shared EXCEPT !.mutex = "free", !.backend_pc = "idle"]
    /\ OnlyShared

\* the frontend reaches mp->pos_ at one of the three places and reads the
\* first word; it takes no mutex
FrontendReadFirst ==
    /\ shared.frontend_pc = "idle"
    /\ \E site \in ReadSites :
          shared' = [shared EXCEPT !.frontend_pc = "reading", !.site = site,
                                   !.seen[1] = shared.pos[1]]
    /\ OnlyShared

\* it reads the second word
FrontendReadSecond ==
    /\ shared.frontend_pc = "reading"
    /\ shared' = [shared EXCEPT !.frontend_pc = "idle",
                                !.seen[2] = shared.pos[2]]
    /\ OnlyShared

NextRace ==
    \/ BackendLock
    \/ BackendWriteFirst
    \/ BackendWriteSecond
    \/ BackendUnlock
    \/ FrontendReadFirst
    \/ FrontendReadSecond

SpecRace == InitRace /\ [][NextRace]_vars

(***************************************************************************)
(* The frontend with the matches of the temporal LK watched                *)
(***************************************************************************)
InitMatches ==
    /\ Constructed
    /\ cfg = DefaultConfig
    /\ viewer = FALSE
    /\ backend = TRUE
    /\ has_map = TRUE
    /\ rig = "moving"
    /\ estimate = NoEstimate
    /\ shared = NoShared
    /\ watch = "matches"
    /\ culling = NoCulling

SpecMatches == InitMatches /\ [][Next]_vars

(***************************************************************************)
(* A loop of the frontend over the weak_ptr links of a frame while the map *)
(* housekeeping, on another thread, drops MapPoints from the map           *)
(***************************************************************************)
\* the four functions that lock a map_point_
LockSites ==
    {"TrackLastFrame", "EstimateCurrentPose", "FindFeaturesInRight",
     "SetObservationsForKeyFrame"}

\* a MapPoint lives while the map or a local shared_ptr owns it; an empty
\* weak_ptr (0) locks to null
Alive(mp) == mp # 0 /\ (mp \in culling.in_map \/ mp = culling.held)

InitCulling ==
    /\ Constructed
    /\ cfg = DefaultConfig
    /\ viewer = FALSE
    /\ backend = TRUE
    /\ has_map = TRUE
    /\ rig = "moving"
    /\ estimate = NoEstimate
    /\ shared = NoShared
    /\ watch = "steps"
    /\ \E site \in LockSites :
       \E links \in UNION {[1..n -> 0..MaxLeft] : n \in 1..MaxLeft} :
          culling = [NoCulling EXCEPT !.site = site, !.links = links,
                                      !.in_map = 1..MaxLeft]

OnlyCulling ==
    UNCHANGED <<status, current_frame, last_frame, tracking_inliers,
                relative_motion, cfg, viewer, backend, has_map, map, calls,
                ret, crashed, step, rig, estimate, shared, watch,
                next_frame_id>>

\* the housekeeping erases a MapPoint from the map
Cull ==
    /\ ~culling.null_deref
    /\ \E mp \in culling.in_map :
          culling' = [culling EXCEPT !.in_map = @ \ {mp}]
    /\ OnlyCulling

\* TrackLastFrame: if (kp->map_point_.lock()); the shared_ptr it gets is a
\* temporary, gone when the test is done.  Null: the feature is taken as
\* one without MapPoint
FrontendTest ==
    /\ ~culling.null_deref
    /\ culling.site = "TrackLastFrame"
    /\ culling.pc = "next"
    /\ culling.i <= Len(culling.links)
    /\ culling' = IF Alive(culling.links[culling.i])
                  THEN [culling EXCEPT !.pc = "tested"]
                  ELSE [culling EXCEPT !.i = @ + 1]
    /\ OnlyCulling

\* TrackLastFrame: auto mp = kp->map_point_.lock(); mp->pos_; no test
FrontendLockAgain ==
    /\ ~culling.null_deref
    /\ culling.pc = "tested"
    /\ culling' = IF Alive(culling.links[culling.i])
                  THEN [culling EXCEPT !.pc = "holding",
                                       !.held = culling.links[culling.i]]
                  ELSE [culling EXCEPT !.null_deref = TRUE]
    /\ OnlyCulling

\* the other three: auto mp = ...map_point_.lock(); if (mp).  Null: the
\* feature is taken as one without MapPoint
FrontendLock ==
    /\ ~culling.null_deref
    /\ culling.site \in LockSites \ {"TrackLastFrame"}
    /\ culling.pc = "next"
    /\ culling.i <= Len(culling.links)
    /\ culling' = IF Alive(culling.links[culling.i])
                  THEN [culling EXCEPT !.pc = "holding",
                                       !.held = culling.links[culling.i]]
                  ELSE [culling EXCEPT !.i = @ + 1]
    /\ OnlyCulling

\* mp is used (mp->pos_, mp->AddObservation) and goes out of scope
FrontendUse ==
    /\ ~culling.null_deref
    /\ culling.pc = "holding"
    /\ culling' = [culling EXCEPT !.pc = "next", !.held = 0, !.i = @ + 1]
    /\ OnlyCulling

NextCulling ==
    \/ Cull
    \/ FrontendTest
    \/ FrontendLockAgain
    \/ FrontendLock
    \/ FrontendUse

SpecCulling == InitCulling /\ [][NextCulling]_vars

(***************************************************************************)
(* EstimateCurrentPose on its own: one call, on any frame TrackLastFrame   *)
(* can have filled, with any chi-square outcome in each outer iteration    *)
(***************************************************************************)
\* the frames TrackLastFrame hands over: up to MaxLeft fresh left features,
\* each with a MapPoint of its own or none, the pose set to the prior
EstimateFrames ==
    {[NewFrame(1) EXCEPT
         !.pose = [i \in 1..3 |-> (i % 3) + 1],
         !.features_left =
             [i \in DOMAIN linked |-> Feature(IF linked[i] THEN i ELSE 0)]] :
     linked \in UNION {StatusVectors(k) : k \in 0..MaxLeft}}

\* the poses the optimizer leaves in the vertex: one in the first three
\* iterations, one in the fourth
EstimatePoses == {p \in Poses : p[1] = 1}

InitEstimate ==
    /\ Constructed
    /\ cfg = DefaultConfig
    /\ viewer = FALSE
    /\ backend = TRUE
    /\ has_map = TRUE
    /\ rig = "moving"
    /\ shared = NoShared
    /\ watch = "steps"
    /\ culling = NoCulling
    /\ \E f \in EstimateFrames :
       \E chi \in [1..4 -> SUBSET (1..Len(EdgeFeatures(f)))] :
       \E a, b \in EstimatePoses :
          estimate = [NoEstimate EXCEPT
                    !.stage = "called", !.frame = f, !.chi = chi,
                    !.opt = [i \in 1..4 |-> IF i < 4 THEN a ELSE b]]

\* the call returns
EstimateReturns ==
    /\ estimate.stage = "called"
    /\ \E r \in {EstimateCurrentPose(World(estimate.frame, map, <<>>),
                                       estimate.chi, estimate.opt)} :
          estimate' = [estimate EXCEPT
                          !.stage = "returned", !.returned = r.w.f,
                          !.inliers = r.inliers,
                          !.trace = OuterIterations(
                                        estimate.frame,
                                        EdgeFeatures(estimate.frame),
                                        estimate.chi, estimate.opt,
                                        0, 0, <<>>).trace]
    /\ UNCHANGED <<status, current_frame, last_frame, tracking_inliers,
                   relative_motion, cfg, viewer, backend, has_map, map, calls,
                   ret, crashed, step, rig, shared, watch, culling,
                   next_frame_id>>

NextEstimate == EstimateReturns

SpecEstimate == InitEstimate /\ [][NextEstimate]_vars

(***************************************************************************)
(* Properties                                                              *)
(***************************************************************************)
HasCall(name) == \E i \in DOMAIN calls : calls[i] = name

CountCalls(name) == Cardinality({i \in DOMAIN calls : calls[i] = name})

Matches == CountTrue(step.stereo_status)

\* C1: after a track step the status is TRACKING_GOOD if tracking_inliers >
\* num_features_tracking, TRACKING_BAD if num_features_tracking_bad <
\* tracking_inliers <= num_features_tracking, LOST if tracking_inliers <=
\* num_features_tracking_bad, whatever the status before the step was.
C1_StatusFromInliers ==
    step.op = "Track" =>
        /\ tracking_inliers > num_features_tracking => status = "TRACKING_GOOD"
        /\ (/\ tracking_inliers > num_features_tracking_bad
            /\ tracking_inliers <= num_features_tracking) => status = "TRACKING_BAD"
        /\ tracking_inliers <= num_features_tracking_bad => status = "LOST"

\* a track step that started in TRACKING_BAD and ended with exactly
\* num_features_tracking_bad inliers
C1_Witness ==
    /\ step.op = "Track"
    /\ step.status_before = "TRACKING_BAD"
    /\ tracking_inliers = num_features_tracking_bad
    /\ status = "LOST"

\* C2: AddFrame in INITING with at least num_features_init right matches makes
\* the frame a keyframe stored in the map and sets TRACKING_GOOD; with fewer
\* the status stays INITING; INITING is left for TRACKING_GOOD only.
C2_InitThreshold ==
    step.op = "StereoInit" =>
        /\ step.status_before = "INITING"
        /\ Matches >= num_features_init =>
              /\ status = "TRACKING_GOOD"
              /\ current_frame.is_keyframe
              /\ [keyframe_id |-> current_frame.keyframe_id,
                  frame |-> current_frame.id] \in map.keyframes
        /\ Matches < num_features_init => status = "INITING"

\* initialisation with exactly num_features_init matches
C2_Witness ==
    /\ step.op = "StereoInit"
    /\ Matches = num_features_init
    /\ status = "TRACKING_GOOD"
    /\ current_frame.is_keyframe

\* C3: in a track step the frame is made a keyframe and inserted into the map
\* iff tracking_inliers < num_features_needed_for_keyframe; otherwise
\* InsertKeyframe changes neither the map nor notifies backend or viewer map.
C3_KeyframeThreshold ==
    step.op = "Track" =>
        /\ current_frame.is_keyframe
               <=> tracking_inliers < num_features_needed_for_keyframe
        /\ current_frame.is_keyframe <=> HasCall("Map.InsertKeyFrame")
        /\ current_frame.is_keyframe =>
               [keyframe_id |-> current_frame.keyframe_id,
                frame |-> current_frame.id] \in map.keyframes
        /\ tracking_inliers >= num_features_needed_for_keyframe =>
               /\ map = step.map_before
               /\ ~HasCall("Map.InsertMapPoint")
               /\ ~HasCall("Backend.UpdateMap")
               /\ ~HasCall("Viewer.UpdateMap")

\* a track step with exactly num_features_needed_for_keyframe inliers
C3_Witness ==
    /\ step.op = "Track"
    /\ tracking_inliers = num_features_needed_for_keyframe
    /\ ~current_frame.is_keyframe
    /\ map = step.map_before

\* C4: the AddFrame that starts in LOST runs Reset and leaves the status
\* INITING.
C4_ResetReturnsToIniting ==
    step.status_before = "LOST" => (step.op = "Reset" /\ status = "INITING")

\* the edges INITING -> TRACKING_GOOD <-> TRACKING_BAD -> LOST and the self loops
ChainEdges ==
    {<<x, x>> : x \in {"INITING", "TRACKING_GOOD", "TRACKING_BAD", "LOST"}}
        \cup {<<"INITING", "TRACKING_GOOD">>,
              <<"TRACKING_GOOD", "TRACKING_BAD">>,
              <<"TRACKING_BAD", "TRACKING_GOOD">>,
              <<"TRACKING_BAD", "LOST">>}

\* C5 as stated: the status changes only along INITING -> TRACKING_GOOD <->
\* TRACKING_BAD -> LOST or stays; LOST is entered from TRACKING_BAD only.
C5_ChainOnly == [][(<<status, status'>> \in ChainEdges)]_vars

\* C5 amended: the status changes only along INITING -> TRACKING_GOOD <->
\* TRACKING_BAD -> LOST, along TRACKING_GOOD -> LOST, or stays.
C5_ChainOrDirectLoss ==
    [][(<<status, status'>> \in ChainEdges \cup {<<"TRACKING_GOOD", "LOST">>})]_vars

\* a track step that went from TRACKING_GOOD to LOST
C5_Witness ==
    /\ step.op = "Track"
    /\ step.status_before = "TRACKING_GOOD"
    /\ status = "LOST"

\* C6: on a frame FindFeaturesInRight has run on, features_left and
\* features_right have the same length and features_right[i] is null exactly
\* where the stereo LK match of left feature i failed.
C6_ParallelFeatures ==
    step.stereo_ran =>
        /\ Len(current_frame.features_right) = Len(current_frame.features_left)
        /\ Len(step.stereo_status) = Len(current_frame.features_left)
        /\ \A i \in DOMAIN current_frame.features_right :
               current_frame.features_right[i].null <=> ~step.stereo_status[i]

\* a keyframe inserted during tracking that holds tracked and detected left
\* features, with a failed and a successful stereo match
C6_Witness ==
    /\ step.op = "Track"
    /\ step.stereo_ran
    /\ step.detected > 0
    /\ Len(current_frame.features_left) > step.detected
    /\ \E i, j \in DOMAIN current_frame.features_right :
           /\ current_frame.features_right[i].null
           /\ ~current_frame.features_right[j].null

\* how often feature reference r is in the observation list obs
Occurrences(obs, r) == Cardinality({k \in DOMAIN obs : obs[k] = r})

\* C7: every left feature of a promoted keyframe that has a MapPoint is in
\* that MapPoint's observations exactly once, and no MapPoint lists any
\* feature twice.
C7_ObservedOnce ==
    /\ current_frame.is_keyframe =>
           \A i \in DOMAIN current_frame.features_left :
               LET mp == current_frame.features_left[i].map_point
               IN  mp # 0 =>
                       Occurrences(map.points[mp], <<current_frame.id, "L", i>>) = 1
    /\ \A mp \in DOMAIN map.points :
           \A k \in DOMAIN map.points[mp] :
               Occurrences(map.points[mp], map.points[mp][k]) = 1

\* a keyframe inserted during tracking with a feature tracked from the last
\* frame that kept its MapPoint and a feature triangulated anew
C7_Witness ==
    /\ step.op = "Track"
    /\ current_frame.is_keyframe
    /\ \E i \in DOMAIN step.links_before :
           /\ step.links_before[i] # 0
           /\ current_frame.features_left[i].map_point = step.links_before[i]
    /\ step.tri_ok # {}

\* C8: keyframe ids grow with the frames promoted, no frame is promoted
\* twice, each promotion comes with exactly one Map::InsertKeyFrame, and the
\* number of ids handed out is the number of keyframes the map stores.
C8_KeyframeIds ==
    /\ map.next_keyframe_id = Cardinality(map.keyframes)
    /\ \A k1, k2 \in map.keyframes :
           /\ k1.frame < k2.frame <=> k1.keyframe_id < k2.keyframe_id
           /\ k1.frame = k2.frame <=> k1.keyframe_id = k2.keyframe_id
    /\ CountCalls("Frame.SetKeyFrame") = CountCalls("Map.InsertKeyFrame")
    /\ CountCalls("Frame.SetKeyFrame") <= 1
    /\ CountCalls("Frame.SetKeyFrame") =
           map.next_keyframe_id - step.map_before.next_keyframe_id
    /\ current_frame.is_keyframe =>
           /\ current_frame.keyframe_id = map.next_keyframe_id - 1
           /\ CountCalls("Frame.SetKeyFrame") = 1

\* a second promotion: the keyframe of id 1 after the keyframe of id 0
C8_Witness ==
    /\ current_frame.is_keyframe
    /\ current_frame.keyframe_id = 1
    /\ Cardinality(map.keyframes) = 2

\* left feature i of the current frame got a MapPoint created in the last step
NewPointAt(i) ==
    current_frame.features_left[i].map_point > Len(step.map_before.points)

\* C9: a triangulation loop creates, links and inserts a MapPoint for index i
\* only if features_right[i] is present and triangulation() succeeded with
\* z > 0; an index with no right feature or a failed triangulation keeps its
\* links and gets no map insert, and the loop goes on to the next index.
C9_TriangulationSkips ==
    step.tri_ran =>
        /\ \A i \in DOMAIN current_frame.features_left :
               LET l == current_frame.features_left[i]
                   r == current_frame.features_right[i]
               IN  /\ NewPointAt(i) =>
                          /\ ~r.null
                          /\ i \in step.tri_ok
                          /\ r.map_point = l.map_point
                          /\ l.map_point \in map.landmarks
                          /\ map.points[l.map_point] =
                                 <<<<current_frame.id, "L", i>>,
                                   <<current_frame.id, "R", i>>>>
                   /\ (r.null \/ i \notin step.tri_ok) =>
                          /\ l.map_point = step.links_before[i]
                          /\ r.map_point = 0
                   /\ i \in step.tri_ok => NewPointAt(i)
        /\ CountCalls("Map.InsertMapPoint") =
               Cardinality({i \in DOMAIN current_frame.features_left : NewPointAt(i)})
        /\ Len(map.points) - Len(step.map_before.points) =
               CountCalls("Map.InsertMapPoint")
        /\ map.landmarks =
               step.map_before.landmarks
                   \cup (Len(step.map_before.points) + 1 .. Len(map.points))

\* a loop in which triangulation() failed for one index and which created a
\* MapPoint at a later index
C9_Witness ==
    /\ step.tri_ran
    /\ \E j, k \in DOMAIN current_frame.features_left :
           /\ j < k
           /\ j \in step.tri_called \ step.tri_ok
           /\ current_frame.features_left[j].map_point = 0
           /\ k \in step.tri_ok
           /\ NewPointAt(k)

\* C10: a stereo initialisation with fewer than num_features_init matches
\* returns with the status INITING, the frame no keyframe, the map unchanged
\* and no call to map, backend or viewer.
C10_FailedInitNoEffect ==
    (step.op = "StereoInit" /\ Matches < num_features_init) =>
        /\ status = "INITING"
        /\ ~current_frame.is_keyframe
        /\ map = step.map_before
        /\ calls = <<>>
        /\ last_frame = current_frame
        /\ current_frame.id = next_frame_id - 1

\* a failed initialisation one match short of num_features_init
C10_Witness ==
    /\ step.op = "StereoInit"
    /\ Matches = num_features_init - 1
    /\ status = "INITING"
    /\ Len(current_frame.features_left) = num_features_init

\* the MapPoints a vector of weak_ptr links to
Linked(links) == {links[i] : i \in DOMAIN links} \ {0}

\* C15: AddFrame returns true for every frame: after a failed and after a
\* successful initialisation, after a track step whatever it classified the
\* frame as, and after a reset.
C15_AlwaysReturnsTrue ==
    step.op \in {"StereoInit", "Track", "Reset"} => ret = TRUE

\* an initialisation that failed (StereoInit returned false), and AddFrame
\* returned true
C15_Witness ==
    /\ step.op = "StereoInit"
    /\ ~EnoughMatches(Matches)
    /\ status = "INITING"
    /\ ret = TRUE

\* the positions of a call in the log of the last AddFrame
Positions(names) == {i \in DOMAIN calls : calls[i] \in names}

\* C16: an AddFrame that makes its frame a keyframe, at initialisation or
\* while tracking, calls Backend::UpdateMap exactly once, after
\* Map::InsertKeyFrame and after one Map::InsertMapPoint per MapPoint
\* triangulated for the frame, and before every call to the viewer.
C16_BackendAfterInserts ==
    (step.op \in {"StereoInit", "Track"} /\ current_frame.is_keyframe) =>
        /\ CountCalls("Backend.UpdateMap") = 1
        /\ CountCalls("Map.InsertKeyFrame") = 1
        /\ CountCalls("Map.InsertMapPoint") = Cardinality(step.tri_ok)
        /\ \A b \in Positions({"Backend.UpdateMap"}) :
              /\ \A i \in Positions({"Map.InsertKeyFrame", "Map.InsertMapPoint"}) :
                    i < b
              /\ \A v \in Positions({"Viewer.AddCurrentFrame", "Viewer.UpdateMap"}) :
                    b < v

\* a keyframe inserted while tracking, with a MapPoint triangulated for it
\* and a viewer attached
C16_Witness ==
    /\ step.op = "Track"
    /\ current_frame.is_keyframe
    /\ step.tri_ok # {}
    /\ viewer
    /\ CountCalls("Backend.UpdateMap") = 1
    /\ Positions({"Viewer.AddCurrentFrame", "Viewer.UpdateMap"}) # {}

\* C18: TrackLastFrame gives the current frame one left feature per
\* successful match of the temporal LK, in order, with the link of the
\* matched feature of the last frame, and none for a failed match.  When the
\* last frame is not a keyframe, every MapPoint the current frame links to and
\* that was not triangulated for the current frame itself is linked from the
\* last frame, and tracking_inliers is at most what it was for the last frame.
C18_TrackedLinks ==
    step.op = "Track" =>
        /\ Len(step.lk_status) = Len(step.last_links)
        /\ Len(step.tracked) = CountTrue(step.lk_status)
        /\ \A i \in DOMAIN step.lk_status :
              step.lk_status[i] =>
                  step.tracked[CountTrue(SubSeq(step.lk_status, 1, i))]
                      = step.last_links[i]
        /\ ~step.last_keyframe =>
              /\ Linked(step.tracked) \subseteq Linked(step.last_links)
              /\ (Linked(Links(current_frame)) \cap step.map_before.landmarks)
                     \subseteq Linked(step.last_links)
              /\ tracking_inliers <= step.inliers_before

\* a track step after a frame that was not made a keyframe, with one match
\* of the temporal LK failed and one succeeded, and fewer inliers than before
C18_Witness ==
    /\ step.op = "Track"
    /\ ~step.last_keyframe
    /\ \E i, j \in DOMAIN step.lk_status : step.lk_status[i] /\ ~step.lk_status[j]
    /\ Linked(step.tracked) # {}
    /\ tracking_inliers < step.inliers_before

\* C19: when the track step runs, last_frame_ is not null and is the frame of
\* the AddFrame call before.
C19_LastFrameIsPrevious ==
    step.op = "Track" =>
        /\ step.last_id # 0
        /\ step.last_id = current_frame.id - 1

\* a track step entered in TRACKING_BAD, after a tracked frame
C19_Witness ==
    /\ step.op = "Track"
    /\ step.last_id = current_frame.id - 1
    /\ step.status_before = "TRACKING_BAD"

\* C11: when EstimateCurrentPose returns, no left feature of the frame has
\* is_outlier set, whatever edges were over the chi-square threshold in each
\* of the 4 outer iterations.
C11_NoOutlierFlagLeft ==
    estimate.stage = "returned" =>
        \A i \in DOMAIN estimate.returned.features_left :
            ~estimate.returned.features_left[i].is_outlier

\* a call with a feature without MapPoint and an edge over the threshold in
\* the fourth iteration but not in the third
C11_Witness ==
    /\ estimate.stage = "returned"
    /\ \E i \in DOMAIN estimate.frame.features_left :
          estimate.frame.features_left[i].map_point = 0
    /\ estimate.chi[4] # {}
    /\ estimate.chi[4] \ estimate.chi[3] # {}

\* the left features whose edge is over the threshold in the fourth iteration
FinalOutliers == {EdgeFeatures(estimate.frame)[e] : e \in estimate.chi[4]}

\* C17: EstimateCurrentPose leaves the number and order of the left features
\* as they are; a feature whose edge is over the threshold in the fourth
\* iteration loses its MapPoint link, every other link stays; and the count
\* it returns is the number of left features that still have a link.
C17_FeaturesKeptLinksCounted ==
    estimate.stage = "returned" =>
        /\ Len(estimate.returned.features_left) = Len(estimate.frame.features_left)
        /\ \A i \in DOMAIN estimate.frame.features_left :
              estimate.returned.features_left[i].map_point =
                  IF i \in FinalOutliers THEN 0
                  ELSE estimate.frame.features_left[i].map_point
        /\ estimate.inliers = Cardinality(Linked(Links(estimate.returned)))

\* a call in which one edge is over the threshold in the fourth iteration,
\* one is not, and the earlier iterations classified otherwise
C17_Witness ==
    /\ estimate.stage = "returned"
    /\ estimate.chi[4] # {}
    /\ Len(EdgeFeatures(estimate.frame)) > Cardinality(estimate.chi[4])
    /\ estimate.chi[1] # estimate.chi[4]
    /\ estimate.inliers = Cardinality(Linked(Links(estimate.returned)))
    /\ estimate.inliers > 0

\* C13: the constructor rejects a null map or backend, so that no AddFrame
\* goes through a null map_ or backend_.
C13_NoNullDereference == ~crashed

\* the frame of the last AddFrame was made a keyframe, registered in the map,
\* went through the triangulation of new points, and the backend was notified
Promoted ==
    /\ current_frame.is_keyframe
    /\ [keyframe_id |-> current_frame.keyframe_id, frame |-> current_frame.id]
           \in map.keyframes \ step.map_before.keyframes
    /\ step.tri_ran
    /\ CountCalls("Backend.UpdateMap") = 1

\* C20 as stated: with num_features_tracking_bad below
\* num_features_needed_for_keyframe, every frame a track step classifies as
\* LOST or TRACKING_BAD is made a keyframe, registered in the map,
\* triangulated from, and reported to the backend in the same AddFrame.
C20_BadOrLostPromoted ==
    (/\ cfg.num_features_tracking_bad < cfg.num_features_needed_for_keyframe
     /\ step.op = "Track"
     /\ status \in {"LOST", "TRACKING_BAD"}) => Promoted

\* C20, amended: the same with num_features_tracking below
\* num_features_needed_for_keyframe.
C20_BelowTrackingPromoted ==
    (/\ cfg.num_features_tracking < cfg.num_features_needed_for_keyframe
     /\ step.op = "Track"
     /\ status \in {"LOST", "TRACKING_BAD"}) => Promoted

\* a track step under such a configuration:
\* a frame classified TRACKING_BAD, made a keyframe, with a new MapPoint
C20_Witness ==
    /\ cfg.num_features_tracking < cfg.num_features_needed_for_keyframe
    /\ step.op = "Track"
    /\ status = "TRACKING_BAD"
    /\ Promoted
    /\ step.tri_ok # {}

\* the MapPoints BuildInitMap created: those first observed from the frame
\* that holds keyframe id 0
InitLandmarks ==
    {mp \in DOMAIN map.points :
        /\ Len(map.points[mp]) > 0
        /\ \E k \in map.keyframes :
              k.keyframe_id = 0 /\ k.frame = map.points[mp][1][1]}

\* C14 as stated: in front of a scene at rest, after a successful
\* initialisation with any number of triangulated MapPoints, every track step
\* leaves relative_motion_ at the identity and inserts no keyframe.
C14_StationaryNoKeyframe ==
    (rig = "at rest" /\ step.op = "Track") =>
        /\ relative_motion = Identity
        /\ ~current_frame.is_keyframe

\* C14, amended: the same when the initialisation triangulated at least
\* num_features_needed_for_keyframe MapPoints.
C14_StationaryWellInitialised ==
    (/\ rig = "at rest"
     /\ step.op = "Track"
     /\ Cardinality(InitLandmarks) >= cfg.num_features_needed_for_keyframe) =>
        /\ relative_motion = Identity
        /\ ~current_frame.is_keyframe

\* the second track step after such an initialisation, the rig standing at a
\* pose that is not the identity
C14_Witness ==
    /\ rig = "at rest"
    /\ step.op = "Track"
    /\ step.last_id > 1
    /\ Cardinality(InitLandmarks) >= cfg.num_features_needed_for_keyframe
    /\ current_frame.pose # Identity
    /\ Compose(current_frame.pose, current_frame.pose) # Identity
    /\ relative_motion = Identity
    /\ ~current_frame.is_keyframe

\* C12: the frontend never reads the position of a MapPoint while the
\* backend, holding the mutex, is between the first and the last store of
\* an update of it.
C12_ReadsExcludeWrites ==
    ~(/\ shared.frontend_pc = "reading"
      /\ shared.mutex = "backend"
      /\ shared.backend_pc \in {"locked", "half written"})

\* the left features whose edge is over the threshold in outer iteration k
OutliersOf(k) == {EdgeFeatures(estimate.frame)[e] : e \in estimate.chi[k]}

\* C22: EstimateCurrentPose runs 4 outer iterations, each started from the
\* pose the frame came in with; the pose of the frame is written after the
\* loop, with what the fourth optimization left in the vertex.  When an
\* iteration ends the marked features are exactly those whose edge is over
\* the threshold in that iteration, whatever was marked before; so the links
\* that are reset and the count returned are those of the fourth iteration.
C22_FourIterationsLastDecides ==
    estimate.stage = "returned" =>
        /\ Len(estimate.trace) = 4
        /\ \A k \in DOMAIN estimate.trace :
              /\ estimate.trace[k].start = estimate.frame.pose
              /\ estimate.trace[k].marked = OutliersOf(k)
        /\ estimate.returned.pose = estimate.opt[4]
        /\ {i \in DOMAIN estimate.frame.features_left :
               estimate.returned.features_left[i].map_point
                   # estimate.frame.features_left[i].map_point} = OutliersOf(4)
        /\ estimate.inliers =
               Len(EdgeFeatures(estimate.frame)) - Cardinality(estimate.chi[4])

\* a call in which an edge is over the threshold in the first iteration and
\* not in the fourth, another in the fourth and not in the third, and the
\* optimizer ends the fourth iteration elsewhere than the third
C22_Witness ==
    /\ estimate.stage = "returned"
    /\ estimate.chi[1] \ estimate.chi[4] # {}
    /\ estimate.chi[4] \ estimate.chi[3] # {}
    /\ estimate.opt[3] # estimate.opt[4]
    /\ estimate.returned.pose # estimate.frame.pose
    /\ estimate.inliers > 0

\* C21: whenever a MapPoint is culled while one of the four functions goes
\* over the links of a frame, the frontend takes the feature as one without
\* MapPoint and dereferences no null shared_ptr: no lock of a link relies
\* on an earlier test of the same link.
C21_CulledLinkNeverDereferenced == ~culling.null_deref

====
